---- MODULE Spec2Model ----
(***************************************************************************)
(* envcloak/encryptor.py: password-based key derivation, the AES-256-GCM   *)
(* envelope codec (encrypt / decrypt) and the file adapter (encrypt_file / *)
(* decrypt_file).                                                          *)
(*                                                                         *)
(* Text is a sequence of Unicode code points, bytes are sequences of       *)
(* 0..255.  str.encode / bytes.decode are UTF-8, base64 and the JSON       *)
(* record are computed character by character.  The two primitives of the  *)
(* `cryptography` package are idealised: PBKDF2 and AES-GCM are keyed      *)
(* digests over a prime field (Fold), so that equal inputs give equal      *)
(* outputs and the tag depends on every bit of key, nonce and ciphertext.  *)
(***************************************************************************)
EXTENDS Integers, Sequences, FiniteSets, TLC

\* ------------------------------------------------------------ constants
\* envcloak.constants, imported at encryptor.py:16
SALT_SIZE == 16
KEY_SIZE == 32
NONCE_SIZE == 12
\* cryptography: modes.GCM(nonce, tag, min_tag_length=16); AES-GCM tags are 16 bytes
TAG_SIZE == 16
\* PBKDF2HMAC(..., iterations=100000, ...)
ITERATIONS == 100000

\* ------------------------------------------------------------ results
\* A call either returns a value or raises: exc is the exception type that
\* reaches the caller, cause the exception it wraps ("raise ... from e").
Ok(v) == [ok |-> TRUE, value |-> v, exc |-> "", cause |-> ""]
Raise(e, c) == [ok |-> FALSE, value |-> <<>>, exc |-> e, cause |-> c]

\* ------------------------------------------------------------ bytes
Pow2(n) == CASE n = 0 -> 1 [] n = 1 -> 2 [] n = 2 -> 4 [] n = 3 -> 8
             [] n = 4 -> 16 [] n = 5 -> 32 [] n = 6 -> 64 [] n = 7 -> 128
             [] OTHER -> 256

RECURSIVE Xor(_, _)
Xor(a, b) == IF a = 0 THEN b
             ELSE IF b = 0 THEN a
             ELSE ((a + b) % 2) + 2 * Xor(a \div 2, b \div 2)

\* ------------------------------------------------------------ UTF-8
\* str.encode(): UTF-8, strict.  A surrogate code point cannot be encoded.
IsSurrogate(c) == c >= 55296 /\ c <= 57343

EncodeChar(c) ==
    IF c < 128 THEN <<c>>
    ELSE IF c < 2048 THEN <<192 + (c \div 64), 128 + (c % 64)>>
    ELSE IF c < 65536 THEN
        <<224 + (c \div 4096), 128 + ((c \div 64) % 64), 128 + (c % 64)>>
    ELSE <<240 + (c \div 262144), 128 + ((c \div 4096) % 64),
           128 + ((c \div 64) % 64), 128 + (c % 64)>>

\* The text is encoded by halves, so that a long text needs no deep recursion.
RECURSIVE EncodeRange(_, _, _)
EncodeRange(s, lo, hi) ==
    IF lo > hi THEN <<>>
    ELSE IF lo = hi THEN EncodeChar(s[lo])
    ELSE LET mid == (lo + hi) \div 2
         IN EncodeRange(s, lo, mid) \o EncodeRange(s, mid + 1, hi)

Encodable(s) == \A i \in 1..Len(s) : ~IsSurrogate(s[i]) /\ s[i] <= 1114111

\* A faulty str.encode that keeps one byte per character (the low eight bits)
str_encode_bytewise(s) == Ok([i \in 1..Len(s) |-> s[i] % 256])

\* data.encode(): Ok(bytes) or UnicodeEncodeError
str_encode(s) ==
    IF Encodable(s) THEN Ok(EncodeRange(s, 1, Len(s)))
    ELSE Raise("UnicodeEncodeError", "")

IsCont(b) == b >= 128 /\ b <= 191

\* The length of the sequence a lead byte starts, 0 for a byte that starts none
\* (0xC0, 0xC1 and 0xF5.. are never valid).
CharLen(b0) ==
    IF b0 < 128 THEN 1
    ELSE IF b0 >= 194 /\ b0 <= 223 THEN 2
    ELSE IF b0 >= 224 /\ b0 <= 239 THEN 3
    ELSE IF b0 >= 240 /\ b0 <= 244 THEN 4
    ELSE 0

\* The code point of the sequence that starts at b[i]
DecodeAt(b, i) ==
    LET n == CharLen(b[i])
    IN IF n = 1 THEN b[i]
       ELSE IF n = 2 THEN (b[i] - 192) * 64 + (b[i + 1] - 128)
       ELSE IF n = 3 THEN
           (b[i] - 224) * 4096 + (b[i + 1] - 128) * 64 + (b[i + 2] - 128)
       ELSE (b[i] - 240) * 262144 + (b[i + 1] - 128) * 4096
            + (b[i + 2] - 128) * 64 + (b[i + 3] - 128)

\* b[i] starts a well-formed sequence: complete, continuation bytes only, not an
\* overlong form, not a surrogate, not above U+10FFFF.
ValidAt(b, i) ==
    LET n == CharLen(b[i])
    IN /\ n > 0
       /\ i + n - 1 <= Len(b)
       /\ \A k \in 1..(n - 1) : IsCont(b[i + k])
       /\ n = 3 => (DecodeAt(b, i) >= 2048 /\ ~IsSurrogate(DecodeAt(b, i)))
       /\ n = 4 => (DecodeAt(b, i) >= 65536 /\ DecodeAt(b, i) <= 1114111)

\* A continuation byte belongs to the sequence of the closest lead byte before it
Claimed(b, j) ==
    \E k \in 1..3 : /\ j - k >= 1
                    /\ ~IsCont(b[j - k])
                    /\ CharLen(b[j - k]) > k
                    /\ \A m \in 1..(k - 1) : IsCont(b[j - m])

WellFormed(b) ==
    \A i \in 1..Len(b) : IF IsCont(b[i]) THEN Claimed(b, i) ELSE ValidAt(b, i)

RECURSIVE DecodeRange(_, _, _)
DecodeRange(b, lo, hi) ==
    IF lo > hi THEN <<>>
    ELSE IF lo = hi THEN (IF IsCont(b[lo]) THEN <<>> ELSE <<DecodeAt(b, lo)>>)
    ELSE LET mid == (lo + hi) \div 2
         IN DecodeRange(b, lo, mid) \o DecodeRange(b, mid + 1, hi)

\* bytes.decode(): UTF-8, strict
bytes_decode(b) ==
    IF WellFormed(b) THEN Ok(DecodeRange(b, 1, Len(b)))
    ELSE Raise("UnicodeDecodeError", "")

\* ------------------------------------------------------------ base64
\* The standard alphabet: A-Z a-z 0-9 + /, padded with =.
B64Char(v) ==
    IF v < 26 THEN 65 + v
    ELSE IF v < 52 THEN 97 + (v - 26)
    ELSE IF v < 62 THEN 48 + (v - 52)
    ELSE IF v = 62 THEN 43 ELSE 47

\* The value of an alphabet character, -1 for any other character.
B64Val(c) ==
    IF c >= 65 /\ c <= 90 THEN c - 65
    ELSE IF c >= 97 /\ c <= 122 THEN c - 97 + 26
    ELSE IF c >= 48 /\ c <= 57 THEN c - 48 + 52
    ELSE IF c = 43 THEN 62
    ELSE IF c = 47 THEN 63
    ELSE -1

PAD == 61

\* The four characters of the group of (up to) three bytes that starts at b[i]
B64Group(b, i) ==
    IF i = Len(b) THEN
        <<B64Char(b[i] \div 4), B64Char((b[i] % 4) * 16), PAD, PAD>>
    ELSE IF i + 1 = Len(b) THEN
        <<B64Char(b[i] \div 4), B64Char((b[i] % 4) * 16 + (b[i + 1] \div 16)),
          B64Char((b[i + 1] % 16) * 4), PAD>>
    ELSE
        <<B64Char(b[i] \div 4), B64Char((b[i] % 4) * 16 + (b[i + 1] \div 16)),
          B64Char((b[i + 1] % 16) * 4 + (b[i + 2] \div 64)), B64Char(b[i + 2] % 64)>>

\* Groups lo..hi (group g starts at byte 3g - 2), by halves
RECURSIVE B64Groups(_, _, _)
B64Groups(b, lo, hi) ==
    IF lo > hi THEN <<>>
    ELSE IF lo = hi THEN B64Group(b, 3 * lo - 2)
    ELSE LET mid == (lo + hi) \div 2
         IN B64Groups(b, lo, mid) \o B64Groups(b, mid + 1, hi)

\* base64.b64encode(b).decode(): the text of the encoding
b64encode(b) == B64Groups(b, 1, (Len(b) + 2) \div 3)

\* base64.b64decode(s) with its default validate=False (binascii.a2b_base64,
\* not strict): a character outside the alphabet is skipped, a pad that
\* completes a quad ends the decoding and whatever follows is ignored; the
\* data characters left over at the end raise binascii.Error.
RECURSIVE a2b_base64(_, _, _, _, _, _)
a2b_base64(s, i, quad, left, pads, out) ==
    IF i > Len(s) THEN
        IF quad = 0 THEN Ok(out) ELSE Raise("binascii.Error", "")
    ELSE LET c == s[i]
             v == B64Val(c)
         IN IF c = PAD THEN
                IF quad >= 2 /\ quad + pads + 1 >= 4 THEN Ok(out)
                ELSE a2b_base64(s, i + 1, quad, left,
                                IF quad >= 2 THEN pads + 1 ELSE pads, out)
            ELSE IF v < 0 THEN a2b_base64(s, i + 1, quad, left, pads, out)
            ELSE IF quad = 0 THEN a2b_base64(s, i + 1, 1, v, 0, out)
            ELSE IF quad = 1 THEN
                a2b_base64(s, i + 1, 2, v % 16, 0, Append(out, left * 4 + (v \div 16)))
            ELSE IF quad = 2 THEN
                a2b_base64(s, i + 1, 3, v % 4, 0, Append(out, left * 16 + (v \div 4)))
            ELSE a2b_base64(s, i + 1, 0, 0, 0, Append(out, left * 64 + v))

\* A str argument is first encoded as ASCII: ValueError on any other character.
b64decode(s) ==
    IF \E i \in 1..Len(s) : s[i] > 127 THEN Raise("ValueError", "")
    ELSE a2b_base64(s, 1, 0, 0, 0, <<>>)

\* ------------------------------------------------------------ idealised primitives
\* One absorption step of the keyed digest that stands for HMAC-SHA256 and for
\* AES / GHASH: a polynomial over the prime field of order 46337.
Mix(h, b) == (h * 251 + b + 1) % 46337

\* 251^n in the field
RECURSIVE Pow251(_)
Pow251(n) ==
    IF n = 0 THEN 1
    ELSE LET r == Pow251(n \div 2)
         IN IF n % 2 = 0 THEN (r * r) % 46337 ELSE (((r * r) % 46337) * 251) % 46337

\* b[lo..hi] absorbed from state 0, by halves
RECURSIVE Poly(_, _, _)
Poly(b, lo, hi) ==
    IF lo > hi THEN 0
    ELSE IF lo = hi THEN Mix(0, b[lo])
    ELSE LET mid == (lo + hi) \div 2
         IN (Poly(b, lo, mid) * Pow251(hi - mid) + Poly(b, mid + 1, hi)) % 46337

\* Mix over every byte of b in order, from state h
Fold(h, b) == ((h % 46337) * Pow251(Len(b)) + Poly(b, 1, Len(b))) % 46337

\* One output byte of the digest state h at position i
Squeeze(h, i) ==
    LET g == Mix(h, i) IN ((g * g) \div 128) % 256

\* PBKDF2HMAC(SHA256, length, salt, iterations).derive(password): length bytes,
\* a function of the password bytes, the salt and the iteration count alone.
pbkdf2_hmac(password, salt, iterations, length) ==
    LET seed == Fold(Fold(iterations, salt), password)
    IN [i \in 1..length |-> Squeeze(seed, i)]

\* algorithms.AES(key): the key is 128, 192 or 256 bits long, or ValueError
AESKeyOk(key) == Len(key) \in {16, 24, 32}

\* modes.GCM(nonce[, tag]): the nonce is 8..128 bytes, or ValueError
GCMNonceOk(nonce) == Len(nonce) >= 8 /\ Len(nonce) <= 128

\* modes.GCM(nonce, tag): a tag shorter than min_tag_length (16) is a ValueError,
\* and the cipher takes no tag longer than its 16 bytes
GCMTagOk(tag) == Len(tag) = TAG_SIZE

\* The cipher context of one (key, nonce): the counter block both the key stream
\* and the tag are computed from.
gcm_init(key, nonce) == Fold(Fold(1, key), nonce)

\* Counter mode: byte i of the text is XORed with byte i of the key stream
gcm_keystream(st, i) == Squeeze(st, i)

gcm_crypt(st, text) == [i \in 1..Len(text) |-> Xor(text[i], gcm_keystream(st, i))]

\* A faulty tag that covers the length of the ciphertext, not its bytes
gcm_tag_of_length(st, ciphertext) ==
    LET h == Mix(st, Len(ciphertext))
    IN [j \in 1..TAG_SIZE |->
          IF j = 1 THEN h % 256
          ELSE IF j = 2 THEN h \div 256
          ELSE Squeeze(h, j)]

\* The authentication tag over the ciphertext (no associated data)
gcm_tag(st, ciphertext) ==
    LET h == Fold(Mix(st, Len(ciphertext)), ciphertext)
    IN [j \in 1..TAG_SIZE |->
          IF j = 1 THEN h % 256
          ELSE IF j = 2 THEN h \div 256
          ELSE Squeeze(h, j)]

\* ------------------------------------------------------------ derive_key
\* A faulty derive_key without the salt check of lines 26-29
derive_key_unchecked(password, salt) ==
    LET pw == str_encode(password)
    IN IF ~pw.ok
       THEN [res |-> Raise("InvalidKeyException", pw.exc), ran |-> TRUE]
       ELSE [res |-> Ok(pbkdf2_hmac(pw.value, salt, ITERATIONS, KEY_SIZE)),
             ran |-> TRUE]

\* derive_key(password, salt): the salt check, then PBKDF2 over password.encode().
\* ran records whether the KDF was started.
derive_key(password, salt) ==
    IF Len(salt) # SALT_SIZE
    THEN [res |-> Raise("InvalidSaltException", ""), ran |-> FALSE]
    ELSE LET pw == str_encode(password)
         IN IF ~pw.ok
            THEN [res |-> Raise("InvalidKeyException", pw.exc), ran |-> TRUE]
            ELSE [res |-> Ok(pbkdf2_hmac(pw.value, salt, ITERATIONS, KEY_SIZE)),
                  ran |-> TRUE]

\* ------------------------------------------------------------ encrypt
\* A faulty encrypt whose nonce is twelve zero bytes, whatever os.urandom returns
encrypt_fixed_nonce(data, key, urandom) ==
    LET nonce == [i \in 1..NONCE_SIZE |-> 0]
        pt == str_encode(data)
    IN IF ~AESKeyOk(key) THEN Raise("EncryptionException", "ValueError")
       ELSE IF ~pt.ok THEN Raise("EncryptionException", pt.exc)
       ELSE LET st == gcm_init(key, nonce)
                ciphertext == gcm_crypt(st, pt.value)
                tag == gcm_tag(st, ciphertext)
            IN Ok([ciphertext |-> b64encode(ciphertext),
                   nonce |-> b64encode(nonce),
                   tag |-> b64encode(tag)])

\* encrypt(data, key) with urandom the bytes os.urandom(NONCE_SIZE) returns
encrypt(data, key, urandom) ==
    LET nonce == urandom
        pt == str_encode(data)
    IN IF ~AESKeyOk(key) THEN Raise("EncryptionException", "ValueError")
       ELSE IF ~GCMNonceOk(nonce) THEN Raise("EncryptionException", "ValueError")
       ELSE IF ~pt.ok THEN Raise("EncryptionException", pt.exc)
       ELSE LET st == gcm_init(key, nonce)
                ciphertext == gcm_crypt(st, pt.value)
                tag == gcm_tag(st, ciphertext)
            IN Ok([ciphertext |-> b64encode(ciphertext),
                   nonce |-> b64encode(nonce),
                   tag |-> b64encode(tag)])

\* ------------------------------------------------------------ decrypt
\* A faulty finalize that releases the plaintext without comparing the tag
gcm_verify_skipped(st, ciphertext, tag) == TRUE

\* decryptor.finalize(): InvalidTag unless the tag is the ciphertext's
gcm_verify(st, ciphertext, tag) == tag = gcm_tag(st, ciphertext)

\* encrypted_data[name], base64-decoded: KeyError when the field is missing
Field(encrypted_data, name) ==
    IF name \notin DOMAIN encrypted_data THEN Raise("KeyError", "")
    ELSE b64decode(encrypted_data[name])

decrypt(encrypted_data, key) ==
    LET nonce == Field(encrypted_data, "nonce")
        ciphertext == Field(encrypted_data, "ciphertext")
        tag == Field(encrypted_data, "tag")
    IN IF ~nonce.ok THEN Raise("DecryptionException", nonce.exc)
       ELSE IF ~ciphertext.ok THEN Raise("DecryptionException", ciphertext.exc)
       ELSE IF ~tag.ok THEN Raise("DecryptionException", tag.exc)
       ELSE IF ~AESKeyOk(key) THEN Raise("DecryptionException", "ValueError")
       ELSE IF ~GCMNonceOk(nonce.value) \/ ~GCMTagOk(tag.value)
            THEN Raise("DecryptionException", "ValueError")
       ELSE LET st == gcm_init(key, nonce.value)
            IN IF ~gcm_verify(st, ciphertext.value, tag.value)
               THEN Raise("DecryptionException", "InvalidTag")
               ELSE LET plaintext == bytes_decode(gcm_crypt(st, ciphertext.value))
                    IN IF plaintext.ok THEN Ok(plaintext.value)
                       ELSE Raise("DecryptionException", plaintext.exc)

\* ------------------------------------------------------------ JSON
\* The text of a field name
FieldText(name) ==
    CASE name = "ciphertext" -> <<99, 105, 112, 104, 101, 114, 116, 101, 120, 116>>
      [] name = "nonce" -> <<110, 111, 110, 99, 101>>
      [] OTHER -> <<116, 97, 103>>

FieldNames == {"ciphertext", "nonce", "tag"}

\* "name": "value"
JsonMember(name, value) ==
    <<34>> \o FieldText(name) \o <<34, 58, 32, 34>> \o value \o <<34>>

\* json.dump(encrypted_data, outfile, ensure_ascii=False) of the dict encrypt
\* returns, its keys in insertion order and the default separators ", " and ": ".
\* Base64 text holds nothing that JSON escapes.
json_dumps(d) ==
    <<123>> \o JsonMember("ciphertext", d["ciphertext"]) \o <<44, 32>>
    \o JsonMember("nonce", d["nonce"]) \o <<44, 32>>
    \o JsonMember("tag", d["tag"]) \o <<125>>

NotSpace(c) == c \notin {32, 9, 10, 13}

\* json.load(infile) of a text without backslashes: an object whose members are
\* strings (between two quotes each) is a dict; any other text the model reads
\* (a truncated record, a plaintext) is a JSONDecodeError.  The quotes are
\* located by counting, the text around them is compared without its whitespace.
json_loads(t) ==
    LET qs == {i \in 1..Len(t) : t[i] = 34}
        nq == Cardinality(qs)
        \* position of quote k; 0 before the first and Len(t) + 1 after the last
        q == [k \in 0..(nq + 1) |->
                IF k = 0 THEN 0
                ELSE IF k = nq + 1 THEN Len(t) + 1
                ELSE CHOOSE i \in qs : Cardinality({j \in qs : j <= i}) = k]
        between(k) == SubSeq(t, q[k] + 1, q[k + 1] - 1)
        gap(k) == SelectSeq(between(k), NotSpace)
        plain(k) == \A i \in (q[k] + 1)..(q[k + 1] - 1) : t[i] >= 32
        shape ==
            /\ nq % 4 = 0
            /\ IF nq = 0 THEN gap(0) = <<123, 125>>
               ELSE /\ gap(0) = <<123>>
                    /\ gap(nq) = <<125>>
                    /\ \A k \in 1..(nq - 1) :
                         IF k % 2 = 1 THEN plain(k)
                         ELSE IF k % 4 = 2 THEN gap(k) = <<58>>
                         ELSE gap(k) = <<44>>
        \* member m (from 1) has its name between quotes 4m - 3 and 4m - 2
        members == 1..(nq \div 4)
        has(name) == \E m \in members : between(4 * m - 3) = FieldText(name)
        \* a repeated name keeps its last value
        value(name) ==
            LET m == CHOOSE m \in members :
                        /\ between(4 * m - 3) = FieldText(name)
                        /\ \A n \in members :
                             between(4 * n - 3) = FieldText(name) => n <= m
            IN between(4 * m - 1)
    IN IF shape
       THEN Ok([name \in {n \in FieldNames : has(n)} |-> value(name)])
       ELSE Raise("JSONDecodeError", "")

\* ------------------------------------------------------------ text files
\* A file is [exists, bytes].  open(path, "r", encoding="utf-8").read() decodes
\* the bytes and, in text mode with the default newline=None, turns "\r\n" and
\* a lone "\r" into "\n".
RECURSIVE UniversalNewlines(_, _, _)
UniversalNewlines(t, lo, hi) ==
    IF lo > hi THEN <<>>
    ELSE IF lo = hi THEN
        IF t[lo] = 13 THEN <<10>>
        ELSE IF t[lo] = 10 /\ lo > 1 /\ t[lo - 1] = 13 THEN <<>>
        ELSE <<t[lo]>>
    ELSE LET mid == (lo + hi) \div 2
         IN UniversalNewlines(t, lo, mid) \o UniversalNewlines(t, mid + 1, hi)

read_text(file) ==
    IF ~file.exists THEN Raise("FileNotFoundError", "")
    ELSE LET text == bytes_decode(file.bytes)
         IN IF ~text.ok THEN text
            ELSE Ok(UniversalNewlines(text.value, 1, Len(text.value)))

\* outfile.write(text) in text mode with the default newline=None: every "\n"
\* is written as os.linesep, and the text is encoded as UTF-8.
RECURSIVE WriteNewlines(_, _, _, _)
WriteNewlines(t, linesep, lo, hi) ==
    IF lo > hi THEN <<>>
    ELSE IF lo = hi THEN (IF t[lo] = 10 THEN linesep ELSE <<t[lo]>>)
    ELSE LET mid == (lo + hi) \div 2
         IN WriteNewlines(t, linesep, lo, mid) \o WriteNewlines(t, linesep, mid + 1, hi)

text_bytes(text, linesep) == str_encode(WriteNewlines(text, linesep, 1, Len(text)))

File(bytes) == [exists |-> TRUE, bytes |-> bytes]
NoFile == [exists |-> FALSE, bytes |-> <<>>]

\* with open(path, "w", encoding="utf-8") as outfile: outfile.write(text)
\* io is what the file system does: "open" fails the open and leaves the file
\* alone; otherwise the open creates or truncates the file, and "write" fails
\* with only the first half of the bytes written.
write_text(files, path, text, linesep, io) ==
    LET b == text_bytes(text, linesep)
    IN IF io = "open" THEN [res |-> Raise("OSError", ""), files |-> files]
       ELSE IF ~b.ok
            THEN [res |-> b, files |-> [files EXCEPT ![path] = File(<<>>)]]
       ELSE IF io = "write"
            THEN [res |-> Raise("OSError", ""),
                  files |-> [files EXCEPT
                               ![path] = File(SubSeq(b.value, 1, Len(b.value) \div 2))]]
       ELSE [res |-> Ok(<<>>), files |-> [files EXCEPT ![path] = File(b.value)]]

\* ------------------------------------------------------------ encrypt_file
encrypt_file(files, input_file, output_file, key, urandom, linesep, io) ==
    LET data == read_text(files[input_file])
    IN IF ~data.ok
       THEN [res |-> Raise("FileEncryptionException", data.exc), files |-> files]
       ELSE LET encrypted_data == encrypt(data.value, key, urandom)
            IN IF ~encrypted_data.ok
               THEN [res |-> Raise("FileEncryptionException", encrypted_data.exc),
                     files |-> files]
               ELSE LET w == write_text(files, output_file,
                                        json_dumps(encrypted_data.value), linesep, io)
                    IN IF w.res.ok THEN w
                       ELSE [res |-> Raise("FileEncryptionException", w.res.exc),
                             files |-> w.files]

\* A faulty decrypt_file that lets the DecryptionException of decrypt through as
\* it is
decrypt_file_unwrapped(files, input_file, output_file, key, linesep, io) ==
    LET text == read_text(files[input_file])
    IN IF ~text.ok
       THEN [res |-> Raise("FileDecryptionException", text.exc), files |-> files]
       ELSE LET encrypted_data == json_loads(text.value)
            IN IF ~encrypted_data.ok
               THEN [res |-> Raise("FileDecryptionException", encrypted_data.exc),
                     files |-> files]
               ELSE LET decrypted_data == decrypt(encrypted_data.value, key)
                    IN IF ~decrypted_data.ok
                       THEN [res |-> decrypted_data, files |-> files]
                       ELSE LET w == write_text(files, output_file,
                                                decrypted_data.value, linesep, io)
                            IN IF w.res.ok THEN w
                               ELSE [res |-> Raise("FileDecryptionException", w.res.exc),
                                     files |-> w.files]

\* ------------------------------------------------------------ decrypt_file
decrypt_file(files, input_file, output_file, key, linesep, io) ==
    LET text == read_text(files[input_file])
    IN IF ~text.ok
       THEN [res |-> Raise("FileDecryptionException", text.exc), files |-> files]
       ELSE LET encrypted_data == json_loads(text.value)
            IN IF ~encrypted_data.ok
               THEN [res |-> Raise("FileDecryptionException", encrypted_data.exc),
                     files |-> files]
               ELSE LET decrypted_data == decrypt(encrypted_data.value, key)
                    IN IF ~decrypted_data.ok
                       THEN [res |-> Raise("FileDecryptionException", decrypted_data.exc),
                             files |-> files]
                       ELSE LET w == write_text(files, output_file,
                                                decrypted_data.value, linesep, io)
                            IN IF w.res.ok THEN w
                               ELSE [res |-> Raise("FileDecryptionException", w.res.exc),
                                     files |-> w.files]

\* ------------------------------------------------------------ the caller's inputs
\* Longest text (in characters) a caller passes
MaxLen == 2

\* a and the euro sign (3 bytes in UTF-8)
Alphabet == {97, 8364}

Texts == UNION {[1..n -> Alphabet] : n \in 0..MaxLen}

\* "pw" and "p" e-acute
Passwords == {<<112, 119>>, <<112, 233>>}

SaltA == [i \in 1..SALT_SIZE |-> i]
SaltB == [i \in 1..SALT_SIZE |-> 255 - i]

\* Two salts of the right size, and salts one byte short, one byte long and empty
Salts == {SaltA, SaltB, [i \in 1..(SALT_SIZE - 1) |-> i],
          [i \in 1..(SALT_SIZE + 1) |-> i], <<>>}

\* What os.urandom(n) may return: any n bytes; two of them are enough for a repeat
\* and for a difference.
Urandom(n) == {[i \in 1..n |-> (7 * i) % 256], [i \in 1..n |-> 255 - i]}

\* A key that never came from derive_key: b"short"
ShortKey == <<115, 104, 111, 114, 116>>

\* ------------------------------------------------------------ damage to an envelope
\* byte i (from 1) of b with bit k (0..7) flipped
FlipBit(b, i, k) ==
    [b EXCEPT ![i] = IF (b[i] \div Pow2(k)) % 2 = 1 THEN b[i] - Pow2(k)
                     ELSE b[i] + Pow2(k)]

\* The envelope with bit n (from 0) of the decoded bytes of one field flipped, the
\* field encoded again
FlipField(env, name, n) ==
    [env EXCEPT ![name] = b64encode(FlipBit(b64decode(env[name]).value,
                                            (n \div 8) + 1, n % 8))]

\* The envelope without one field
DropField(env, name) == [f \in (DOMAIN env) \ {name} |-> env[f]]

\* The envelope with text that is not base64 in one field: "!" after the field's
\* text, "!?" instead of it, e-acute after it
JunkField(env, name, kind) ==
    [env EXCEPT ![name] = CASE kind = "append" -> env[name] \o <<33>>
                            [] kind = "replace" -> <<33, 63>>
                            [] OTHER -> env[name] \o <<233>>]

FieldBits(env, name) == 8 * Len(b64decode(env[name]).value)

\* Every way the model damages an envelope; <<"intact">> leaves it as it is
Damages(env) ==
    {<<"intact", "", 0>>}
    \cup {<<"flip", name, n>> : name \in {"ciphertext"}, n \in 0..(FieldBits(env, "ciphertext") - 1)}
    \cup {<<"flip", name, n>> : name \in {"tag"}, n \in 0..(FieldBits(env, "tag") - 1)}
    \cup {<<"drop", name, 0>> : name \in FieldNames}
    \cup {<<kind, name, 0>> : kind \in {"append", "replace", "nonascii"}, name \in FieldNames}

Damaged(env, d) ==
    CASE d[1] = "intact" -> env
      [] d[1] = "flip" -> FlipField(env, d[2], d[3])
      [] d[1] = "drop" -> DropField(env, d[2])
      [] OTHER -> JunkField(env, d[2], d[1])

\* ------------------------------------------------------------ the files
\* a, CR and LF
FileAlphabet == {97, 13, 10}

FileTexts == UNION {[1..n -> FileAlphabet] : n \in 0..MaxLen}

\* The input file: missing, not UTF-8 (the byte 0xFF), the euro sign, or any text
\* of FileTexts
InputFiles ==
    {NoFile, File(<<255>>), File(str_encode(<<8364>>).value)}
    \cup {File(str_encode(t).value) : t \in FileTexts}

\* The output file of decrypt_file before the first call: missing, or "old"
OutputFiles == {NoFile, File(<<111, 108, 100>>)}

\* os.linesep: "\n" on POSIX, "\r\n" on Windows
Lineseps == {<<10>>, <<13, 10>>}

\* The keys the file operations are called with: too short, and two derived keys
FileKeys == {ShortKey} \cup {derive_key(pw, SaltA).res.value : pw \in Passwords}

\* ------------------------------------------------------------ state
VARIABLES
    key,      \* the key the caller holds
    keySrc,   \* <<password, salt>> it was derived from, <<>> for a key given raw
    sealed,   \* the last envelope encrypt returned, with what it was made from
    rederived, \* derive_key has returned a key since that envelope was made
    files,    \* the file system: path -> [exists, bytes]
    linesep,  \* os.linesep of the platform
    written,  \* the last record encrypt_file wrote in full, with its key
    last      \* the call that has just returned, with its arguments and result

vars == <<key, keySrc, sealed, rederived, files, linesep, written, last>>

Paths == {"plain", "enc", "out"}

NoCall == [op |-> "none"]
NoEnvelope == [some |-> FALSE]
NoRecord == [some |-> FALSE]

Init ==
    /\ key = ShortKey
    /\ keySrc = <<>>
    /\ sealed = NoEnvelope
    /\ rederived = FALSE
    /\ files = [p \in Paths |-> NoFile]
    /\ linesep = <<10>>
    /\ written = NoRecord
    /\ last = NoCall

\* The caller is between two calls
Idle == last.op = "none"

\* A faulty derivation that does not use the caller's salt but any salt of its
\* length
DeriveKeyFreshSalt(password, salt) ==
    /\ Idle
    /\ \E s \in {x \in Salts : Len(x) = Len(salt)} :
         LET r == derive_key(password, s)
         IN /\ last' = [op |-> "derive_key", password |-> password, salt |-> salt,
                        ran |-> r.ran, res |-> r.res]
            /\ IF r.res.ok
               THEN /\ key' = r.res.value
                    /\ keySrc' = <<password, salt>>
                    /\ rederived' = sealed.some
               ELSE UNCHANGED <<key, keySrc, rederived>>
    /\ UNCHANGED <<sealed, files, linesep, written>>

\* key = derive_key(password, salt); a failed call leaves the caller's key as it was
DeriveKey(password, salt) ==
    /\ Idle
    /\ LET r == derive_key(password, salt)
       IN /\ last' = [op |-> "derive_key", password |-> password, salt |-> salt,
                      ran |-> r.ran, res |-> r.res]
          /\ IF r.res.ok
             THEN /\ key' = r.res.value
                  /\ keySrc' = <<password, salt>>
                  /\ rederived' = sealed.some
             ELSE UNCHANGED <<key, keySrc, rederived>>
    /\ UNCHANGED <<sealed, files, linesep, written>>

\* envelope = encrypt(data, key), os.urandom returning urandom
Encrypt(data, urandom) ==
    /\ Idle
    /\ LET r == encrypt(data, key, urandom)
       IN /\ last' = [op |-> "encrypt", data |-> data, urandom |-> urandom,
                      before |-> sealed, res |-> r]
          /\ IF r.ok
             THEN /\ sealed' = [some |-> TRUE, data |-> data, key |-> key,
                                src |-> keySrc, urandom |-> urandom, env |-> r.value]
                  /\ rederived' = FALSE
             ELSE UNCHANGED <<sealed, rederived>>
    /\ UNCHANGED <<key, keySrc, files, linesep, written>>

\* decrypt(envelope, key) of the sealed envelope, intact or damaged
Decrypt(d) ==
    /\ Idle
    /\ sealed.some
    /\ last' = [op |-> "decrypt", damage |-> d[1], field |-> d[2],
                res |-> decrypt(Damaged(sealed.env, d), key)]
    /\ UNCHANGED <<key, keySrc, sealed, rederived, files, linesep, written>>

\* encrypt_file(input_file, output_file, k)
EncryptFile(input_file, output_file, k, urandom, io) ==
    /\ Idle
    /\ LET r == encrypt_file(files, input_file, output_file, k, urandom, linesep, io)
       IN /\ files' = r.files
          /\ last' = [op |-> "encrypt_file", input |-> input_file,
                      output |-> output_file, key |-> k, io |-> io,
                      before |-> files, res |-> r.res]
          /\ written' = IF r.res.ok
                        THEN [some |-> TRUE, key |-> k, path |-> output_file,
                              source |-> files[input_file].bytes]
                        ELSE IF r.files = files THEN written ELSE NoRecord
    /\ UNCHANGED <<key, keySrc, sealed, rederived, linesep>>

\* decrypt_file(input_file, output_file, k)
DecryptFile(input_file, output_file, k, io) ==
    /\ Idle
    /\ LET r == decrypt_file(files, input_file, output_file, k, linesep, io)
       IN /\ files' = r.files
          /\ last' = [op |-> "decrypt_file", input |-> input_file,
                      output |-> output_file, key |-> k, io |-> io,
                      before |-> files, res |-> r.res]
    /\ UNCHANGED <<key, keySrc, sealed, rederived, linesep, written>>

\* The caller takes the result and goes on
Return ==
    /\ ~Idle
    /\ last' = NoCall
    /\ UNCHANGED <<key, keySrc, sealed, rederived, files, linesep, written>>

Next ==
    \/ \E password \in Passwords, salt \in Salts : DeriveKey(password, salt)
    \/ \E data \in Texts, urandom \in Urandom(NONCE_SIZE) : Encrypt(data, urandom)
    \/ \E d \in (IF sealed.some THEN Damages(sealed.env) ELSE {}) : Decrypt(d)
    \/ Return

\* The codec: derive_key, encrypt and decrypt in any order
Spec == Init /\ [][Next]_vars

\* What the file system does to a write
IoOutcomes == {"ok", "open", "write"}

FileInit ==
    /\ key = ShortKey
    /\ keySrc = <<>>
    /\ sealed = NoEnvelope
    /\ rederived = FALSE
    /\ \E f \in InputFiles, o \in OutputFiles :
         files = [p \in Paths |-> IF p = "plain" THEN f
                                  ELSE IF p = "out" THEN o ELSE NoFile]
    /\ linesep \in Lineseps
    /\ written = NoRecord
    /\ last = NoCall

FileNext ==
    \/ \E k \in FileKeys, urandom \in Urandom(NONCE_SIZE), io \in IoOutcomes :
         EncryptFile("plain", "enc", k, urandom, io)
    \/ \E input_file \in {"enc", "plain"}, k \in FileKeys, io \in IoOutcomes :
         DecryptFile(input_file, "out", k, io)
    \/ Return

\* The file adapter: encrypt_file and decrypt_file in any order
FileSpec == FileInit /\ [][FileNext]_vars

\* ------------------------------------------------------------ C1
\* C1 (round trip): decrypt, given intact the envelope encrypt returned and the
\* key that envelope was made with, returns exactly the text that was encrypted,
\* the empty text and texts with multi-byte characters included.
RoundTrip ==
    (last.op = "decrypt" /\ last.damage = "intact" /\ key = sealed.key)
        => (last.res.ok /\ last.res.value = sealed.data)

\* A text of a three-byte character and a one-byte character has come back
RoundTripWitness ==
    /\ last.op = "decrypt" /\ last.damage = "intact"
    /\ key = sealed.key /\ Len(key) = KEY_SIZE
    /\ sealed.data = <<8364, 97>>
    /\ last.res = Ok(<<8364, 97>>)

\* ------------------------------------------------------------ C2
\* C2 (tamper detection): with any single bit of the decoded ciphertext or of
\* the decoded tag flipped, decrypt under the envelope's key fails with
\* DecryptionException and returns no text.
TamperDetected ==
    (last.op = "decrypt" /\ last.damage = "flip" /\ key = sealed.key)
        => (~last.res.ok /\ last.res.exc = "DecryptionException")

\* A flipped ciphertext bit of a non-empty text has been refused by the tag check
TamperDetectedWitness ==
    /\ last.op = "decrypt" /\ last.damage = "flip" /\ last.field = "ciphertext"
    /\ key = sealed.key /\ Len(sealed.data) = MaxLen
    /\ ~last.res.ok /\ last.res.exc = "DecryptionException"
    /\ last.res.cause = "InvalidTag"

\* ------------------------------------------------------------ C3
\* C3 (malformed envelope): an envelope without its tag field, or with text that
\* is not base64 in its ciphertext, nonce or tag field, makes decrypt fail with
\* DecryptionException; it never yields a text.
MalformedEnvelopeRejected ==
    (/\ last.op = "decrypt"
     /\ \/ last.damage = "drop" /\ last.field = "tag"
        \/ last.damage \in {"append", "replace", "nonascii"})
        => (~last.res.ok /\ last.res.exc = "DecryptionException")

\* The ciphertext field with "!" after its base64 text has been decrypted to the
\* original text: b64decode skipped the "!"
MalformedEnvelopeAccepted ==
    /\ last.op = "decrypt" /\ last.damage = "append" /\ last.field = "ciphertext"
    /\ key = sealed.key /\ Len(sealed.data) > 0
    /\ last.res = Ok(sealed.data)

\* ------------------------------------------------------------ C4
\* C4 (nonce uniqueness, as first stated): an encryption never uses the nonce of
\* the encryption before it under the same key.
NonceNeverReused ==
    (/\ last.op = "encrypt" /\ last.res.ok
     /\ last.before.some /\ last.before.key = key)
        => last.res.value["nonce"] # last.before.env["nonce"]

\* C4 (nonce uniqueness, as the code has it): the nonce of an envelope is the
\* NONCE_SIZE bytes os.urandom returned to that call, so two encryptions under
\* the same key have the same nonce exactly when os.urandom returned the same
\* bytes to both.
NonceIsUrandom ==
    (last.op = "encrypt" /\ last.res.ok)
        => /\ b64decode(last.res.value["nonce"]) = Ok(last.urandom)
           /\ Len(last.urandom) = NONCE_SIZE
           /\ (last.before.some /\ last.before.key = key)
                => ((last.res.value["nonce"] = last.before.env["nonce"])
                        <=> (last.urandom = last.before.urandom))

\* Two encryptions of the same text under the same key, os.urandom returning
\* different bytes, have different nonces and different ciphertexts
NonceIsUrandomWitness ==
    /\ last.op = "encrypt" /\ last.res.ok
    /\ last.before.some /\ last.before.key = key
    /\ last.before.data = last.data /\ Len(last.data) > 0
    /\ last.urandom # last.before.urandom
    /\ last.res.value["nonce"] # last.before.env["nonce"]
    /\ last.res.value["ciphertext"] # last.before.env["ciphertext"]

\* ------------------------------------------------------------ C5
\* C5 (wrong key rejection): decrypt of an intact envelope under a valid key
\* other than the one it was made with fails with DecryptionException.
WrongKeyRejected ==
    (/\ last.op = "decrypt" /\ last.damage = "intact"
     /\ key # sealed.key /\ Len(key) = KEY_SIZE /\ Len(sealed.key) = KEY_SIZE)
        => (~last.res.ok /\ last.res.exc = "DecryptionException")

\* Another 32-byte key has been refused by the tag check
WrongKeyRejectedWitness ==
    /\ last.op = "decrypt" /\ last.damage = "intact"
    /\ key # sealed.key /\ Len(key) = KEY_SIZE /\ Len(sealed.key) = KEY_SIZE
    /\ ~last.res.ok /\ last.res.exc = "DecryptionException"
    /\ last.res.cause = "InvalidTag"

\* ------------------------------------------------------------ C6
\* C6 (salt size validation): derive_key with a salt that is not SALT_SIZE bytes
\* long fails with InvalidSaltException before the key derivation is started;
\* with a salt of SALT_SIZE bytes it returns a key of KEY_SIZE bytes.
SaltSizeValidated ==
    last.op = "derive_key"
        => IF Len(last.salt) # SALT_SIZE
           THEN ~last.res.ok /\ last.res.exc = "InvalidSaltException" /\ ~last.ran
           ELSE last.res.ok /\ Len(last.res.value) = KEY_SIZE

\* A salt one byte too long has been refused
SaltSizeValidatedWitness ==
    /\ last.op = "derive_key" /\ Len(last.salt) = SALT_SIZE + 1
    /\ ~last.res.ok /\ last.res.exc = "InvalidSaltException" /\ ~last.ran

\* ------------------------------------------------------------ C7
\* C7 (key determinism across sessions): once derive_key has been called again
\* after an envelope was made, a key it returns for the password and salt of the
\* envelope's key decrypts the envelope to the original text, whatever calls
\* were made in between.
RederivedKeyDecrypts ==
    (/\ last.op = "decrypt" /\ last.damage = "intact"
     /\ rederived /\ keySrc # <<>> /\ keySrc = sealed.src)
        => (last.res.ok /\ last.res.value = sealed.data)

\* An envelope has been decrypted under a key derived after it was made
RederivedKeyDecryptsWitness ==
    /\ last.op = "decrypt" /\ last.damage = "intact"
    /\ rederived /\ keySrc # <<>> /\ keySrc = sealed.src
    /\ Len(sealed.data) > 0
    /\ last.res = Ok(sealed.data)

\* ------------------------------------------------------------ C8
\* C8 (file round trip): encrypt_file writes a record with exactly the three
\* base64 string fields ciphertext, nonce and tag, and decrypt_file of that
\* record under the same key writes the bytes of the original file.
FileRoundTrip ==
    /\ (last.op = "encrypt_file" /\ last.res.ok)
         => LET record == json_loads(read_text(files[last.output]).value)
            IN /\ record.ok
               /\ DOMAIN record.value = FieldNames
               /\ \A name \in FieldNames : b64decode(record.value[name]).ok
    /\ (/\ last.op = "decrypt_file" /\ last.res.ok
        /\ written.some /\ last.input = written.path /\ last.key = written.key)
         => files[last.output] = File(written.source)

\* The file CR, LF has come back as LF where os.linesep is LF
FileRoundTripBroken ==
    /\ last.op = "decrypt_file" /\ last.res.ok
    /\ written.some /\ last.input = written.path /\ last.key = written.key
    /\ linesep = <<10>>
    /\ written.source = <<13, 10>>
    /\ files[last.output] = File(<<10>>)

\* ------------------------------------------------------------ C9
\* C9 (no partial output on failure): after a failed encrypt_file or
\* decrypt_file the output file is what it was before the call.
OutputUntouchedOnFailure ==
    (last.op \in {"encrypt_file", "decrypt_file"} /\ ~last.res.ok)
        => files[last.output] = last.before[last.output]

\* A failed write of decrypt_file has left a shorter file in the place of the old
\* output file
OutputTruncatedOnFailure ==
    /\ last.op = "decrypt_file" /\ ~last.res.ok /\ last.res.cause = "OSError"
    /\ last.before[last.output] = File(<<111, 108, 100>>)
    /\ files[last.output].exists
    /\ Len(files[last.output].bytes) < 3

\* ------------------------------------------------------------ C10
\* C10 (file-level error wrapping): every failure of encrypt_file reaches the
\* caller as FileEncryptionException and every failure of decrypt_file as
\* FileDecryptionException.
FileErrorsWrapped ==
    /\ (last.op = "encrypt_file" /\ ~last.res.ok)
         => last.res.exc = "FileEncryptionException"
    /\ (last.op = "decrypt_file" /\ ~last.res.ok)
         => last.res.exc = "FileDecryptionException"

\* The DecryptionException of a wrong key has reached the caller of decrypt_file
\* wrapped
FileErrorsWrappedWitness ==
    /\ last.op = "decrypt_file" /\ ~last.res.ok
    /\ last.res.exc = "FileDecryptionException"
    /\ last.res.cause = "DecryptionException"
    /\ written.some /\ last.input = written.path /\ last.key # written.key

====
